---- MODULE Spec2Model ----
(***************************************************************************)
(* A model of the CRUD-Flask-Postgres service: the `validate` decorator of *)
(* src/utils (parse, dispatch, error interception, serialization), the     *)
(* user service and the two routes bound to it.                            *)
(*                                                                         *)
(* Two specifications share the actions of the decorator:                  *)
(*   Spec          the application: the routes of src/routes/user, with    *)
(*                 requests served concurrently against one users table;   *)
(*   SpecValidate  the decorator around an arbitrary handler, for every    *)
(*                 declared combination of query/body/form schemas.        *)
(***************************************************************************)
EXTENDS Integers, Sequences, FiniteSets, TLC

\* ------------------------------------------------------------- bounds
\* Requests served by the application (Spec), each in its own slot.
MaxReq == 2
\* Longest JSON array sent as a request body.
MaxBodyLen == 3
\* Longest list a handler returns.
MaxResLen == 2

\* ------------------------------------------------- Python / JSON values
\* One shape for every value the code handles: t is the Python type, v a
\* string payload (the text of a str, the class of an object), n a number,
\* d a mapping (dict items, the fields of a model), l a sequence.
Val(t, v, n, d, l) == [t |-> t, v |-> v, n |-> n, d |-> d, l |-> l]

PyNone == Val("none", "", 0, <<>>, <<>>)
PyStr(s) == Val("str", s, 0, <<>>, <<>>)
PyInt(i) == Val("int", "", i, <<>>, <<>>)
PyDict(m) == Val("dict", "", 0, m, <<>>)
PyList(s) == Val("list", "", 0, <<>>, s)
PyTuple(s) == Val("tuple", "", 0, <<>>, s)
\* An instance of a pydantic schema class cls with the given field values.
Model(cls, fields) == Val("model", cls, 0, fields, <<>>)
\* An instance of a mapped class: kind is the abstract base it derives from
\* (BaseEntity or BaseModel of src/utils/bases.py), fields its columns.
Entity(kind, fields) == Val(kind, "", 0, fields, <<>>)
\* An exception object of class cls.
ExcObj(cls) == Val("exception", cls, 0, <<>>, <<>>)

Range(s) == {s[i] : i \in DOMAIN s}

RECURSIVE Flatten(_)
Flatten(ss) == IF ss = <<>> THEN <<>> ELSE Head(ss) \o Flatten(Tail(ss))

\* ---------------------------------------------------------- exceptions
\* A raised exception: its class, and the message and code an HTTPError
\* carries (src/utils/__init__.py lines 20-39).
Raise(cls, message, code) == [cls |-> cls, message |-> message, code |-> code]

NoExc == Raise("", "", 0)

HTTPError(message, code) == Raise("HTTPError", message, code)

NotFound(message) == Raise("NotFound", message, 404)

Forbidden(message) == Raise("Forbidden", message, 403)

\* The direct base class of each exception class the code raises or catches.
BaseOf(cls) ==
  CASE cls = "NotFound" -> "HTTPError"
    [] cls = "Forbidden" -> "HTTPError"
    [] cls = "IntegrityError" -> "SQLAlchemyError"
    [] cls = "OperationalError" -> "SQLAlchemyError"
    [] cls = "InvalidIterableOfModelsException" -> "BaseFlaskPydanticException"
    [] cls = "ManyModelValidationError" -> "BaseFlaskPydanticException"
    [] OTHER -> "Exception"

\* isinstance(e, cls) as an except clause decides it (the hierarchy is two deep).
IsA(e, cls) == e.cls # "" /\ (e.cls = cls \/ BaseOf(e.cls) = cls)

\* ------------------------------------------------------------- schemas
\* The declared fields of each pydantic class, in declaration order
\* (src/schemas/user/__init__.py, src/utils/bases.py lines 11-13).
SchemaFields(cls) ==
  CASE cls = "CreateUser" -> <<"username", "email", "password">>
    [] cls = "CreatedUser" -> <<"username", "email">>
    [] cls = "UsersList" -> <<"users">>
    [] cls = "ForBody" -> <<"param">>
    [] cls = "ErrorSchema" -> <<"error", "code">>

\* The annotation of a field: every field of the request and response
\* schemas is str, but UsersList.users (List[CreatedUser]), ErrorSchema.error
\* (Any) and ErrorSchema.code (int).
FieldType(cls, f) ==
  CASE cls = "UsersList" -> "List[CreatedUser]"
    [] cls = "ErrorSchema" /\ f = "error" -> "Any"
    [] cls = "ErrorSchema" /\ f = "code" -> "int"
    [] OTHER -> "str"

\* One entry of ValidationError.errors().
ErrorEntry(f, msg, type) ==
  PyDict([loc |-> PyList(<<PyStr(f)>>), msg |-> PyStr(msg), type |-> PyStr(type)])

\* pydantic's validation of one field of keyword arguments data: the errors
\* it reports (none when the value is accepted).
FieldErrors(cls, f, data) ==
  IF f \notin DOMAIN data
    THEN <<ErrorEntry(f, "field required", "value_error.missing")>>
  ELSE IF FieldType(cls, f) = "Any" THEN <<>>
  ELSE IF data[f].t = "none"
    THEN <<ErrorEntry(f, "none is not an allowed value", "type_error.none.not_allowed")>>
  ELSE IF FieldType(cls, f) = "str"
    THEN IF data[f].t \in {"str", "int"} THEN <<>>
         ELSE <<ErrorEntry(f, "str type expected", "type_error.str")>>
  ELSE IF FieldType(cls, f) = "int"
    THEN IF data[f].t = "int" THEN <<>>
         ELSE <<ErrorEntry(f, "value is not a valid integer", "type_error.integer")>>
  ELSE IF data[f].t \in {"list", "tuple"} THEN <<>>
  ELSE <<ErrorEntry(f, "value is not a valid list", "type_error.list")>>

\* The value a field holds after validation: a str field coerces a number to
\* its decimal text.
Coerce(cls, f, x) ==
  IF FieldType(cls, f) = "str" /\ x.t = "int" THEN PyStr(ToString(x.n)) ELSE x

ValidationErrors(cls, data) ==
  Flatten([i \in DOMAIN SchemaFields(cls) |-> FieldErrors(cls, SchemaFields(cls)[i], data)])

NotDeclared == [exc |-> "", val |-> PyNone, errors |-> <<>>]

Raised(exc, errors) == [exc |-> exc, val |-> PyNone, errors |-> errors]

\* The instance, or the ValidationError, that validation of data ends with.
Validated(cls, data, errors) ==
  IF errors # <<>> THEN Raised("ValidationError", errors)
  ELSE [exc |-> "", errors |-> <<>>,
        val |-> Model(cls, [f \in Range(SchemaFields(cls)) |-> Coerce(cls, f, data[f])])]

\* cls(**arg): the outcome of calling a pydantic class on unpacked arg. A
\* value that is no mapping cannot be unpacked (TypeError); keys the schema
\* does not declare are ignored.
Construct(cls, arg) ==
  IF arg.t # "dict" THEN Raised("TypeError", <<>>)
  ELSE Validated(cls, arg.d, ValidationErrors(cls, arg.d))

\* ------------------------------------------------------- serialization
\* Whether json.dumps, with pydantic's encoder, can encode x: an exception
\* object or a mapped instance has no encoder.
RECURSIVE Serializable(_)
Serializable(x) ==
  CASE x.t \in {"none", "str", "int"} -> TRUE
    [] x.t \in {"dict", "model"} -> \A k \in DOMAIN x.d : Serializable(x.d[k])
    [] x.t \in {"list", "tuple"} -> \A i \in DOMAIN x.l : Serializable(x.l[i])
    [] OTHER -> FALSE

\* The JSON document a value is written as: a model as the object of its
\* fields, a tuple as an array, and with exclude_none the members that hold
\* None left out.
RECURSIVE ToDoc(_, _)
ToDoc(x, exclude_none) ==
  CASE x.t \in {"dict", "model"} ->
         PyDict([k \in {j \in DOMAIN x.d : ~(exclude_none /\ x.d[j].t = "none")}
                   |-> ToDoc(x.d[k], exclude_none)])
    [] x.t \in {"list", "tuple"} ->
         PyList([i \in DOMAIN x.l |-> ToDoc(x.l[i], exclude_none)])
    [] OTHER -> x

Failed(exc) == [exc |-> exc, doc |-> PyNone]

\* x.json(exclude_none=...): only a pydantic instance has the method.
Json(x, exclude_none) ==
  IF x.t # "model" THEN Failed("AttributeError")
  ELSE IF ~Serializable(x) THEN Failed("TypeError")
  ELSE [exc |-> "", doc |-> ToDoc(x, exclude_none)]

\* Whether a for loop can run over content.
Iterable(content) == content.t \in {"list", "tuple", "dict", "str"}

\* The items the loop visits. The keys of a dict and the characters of a str
\* are all str: one of them stands for them all.
Items(content) ==
  CASE content.t \in {"list", "tuple"} -> content.l
    [] content.t = "dict" /\ DOMAIN content.d # {} ->
         <<PyStr(CHOOSE k \in DOMAIN content.d : TRUE)>>
    [] content.t = "str" /\ content.v # "" -> <<PyStr(content.v)>>
    [] OTHER -> <<>>

\* What a request ends with: a response, an exception that left the wrapper,
\* or the handler's own value handed on to the framework unchanged.
Responded(status, body) ==
  [kind |-> "response", status |-> status, body |-> body, exc |-> "",
   mimetype |-> "application/json"]

Propagated(cls) ==
  [kind |-> "exception", status |-> 0, body |-> PyNone, exc |-> cls, mimetype |-> ""]

Unmodified(res) ==
  [kind |-> "unmodified", status |-> 0, body |-> res, exc |-> "", mimetype |-> ""]

NoResult == [kind |-> "", status |-> 0, body |-> PyNone, exc |-> "", mimetype |-> ""]

\* No schema of the repository sets Config.orm_mode: serialize is parse_obj.
OrmMode(cls) == FALSE

\* dict(obj) as parse_obj tries it: a model yields its fields, an empty
\* sequence no items; a sequence of anything but pairs, or a value dict()
\* refuses, is a ValidationError.
ParseObj(cls, obj) ==
  IF obj.t \in {"dict", "model"} \/ (obj.t \in {"list", "tuple"} /\ obj.l = <<>>)
    THEN Construct(cls, PyDict(obj.d))
  ELSE Raised("ValidationError", <<>>)

\* response_model.from_orm(obj): the fields are read off obj's attributes.
FromOrm(cls, obj) ==
  IF obj.t \in {"model", "BaseEntity", "BaseModelDB"} THEN Construct(cls, PyDict(obj.d))
  ELSE Raised("ValidationError", <<>>)

JsonOf(m, exclude_none) == IF m.exc # "" THEN Failed(m.exc) ELSE Json(m.val, exclude_none)

\* serialize(item).json(...) with a response_model, item.json(...) without.
SerializeOne(item, exclude_none, response_model) ==
  IF response_model = "" THEN Json(item, exclude_none)
  ELSE JsonOf(IF OrmMode(response_model) THEN FromOrm(response_model, item)
              ELSE ParseObj(response_model, item), exclude_none)

\* The join of the items' JSON texts: the first item that fails ends it.
RECURSIVE JoinDocs(_, _)
JoinDocs(outs, acc) ==
  IF outs = <<>> THEN [exc |-> "", doc |-> PyList(acc)]
  ELSE IF Head(outs).exc # "" THEN Failed(Head(outs).exc)
  ELSE JoinDocs(Tail(outs), Append(acc, Head(outs).doc))

SerializeMany(items, exclude_none, response_model) ==
  JoinDocs([i \in DOMAIN items |-> SerializeOne(items[i], exclude_none, response_model)], <<>>)

\* flask's make_response(js, status_code), when js was built.
make_response(js, status_code) ==
  IF js.exc # "" THEN Propagated(js.exc) ELSE Responded(status_code, js.doc)

make_json_response(content, status_code, exclude_none, many, response_model) ==
  make_response(IF ~many THEN SerializeOne(content, exclude_none, response_model)
                ELSE IF ~Iterable(content) THEN Failed("TypeError")
                ELSE SerializeMany(Items(content), exclude_none, response_model),
                status_code)

AllOf(items, kind) == \A i \in DOMAIN items : items[i].t = kind

\* A variant of is_iterable_of_models: any() where the code has all().
is_iterable_of_models_any(content) ==
  /\ Iterable(content)
  /\ \E i \in DOMAIN Items(content) : Items(content)[i].t \in {"model", "BaseEntity", "BaseModelDB"}

is_iterable_of_models(content) ==
  /\ Iterable(content)
  /\ \/ AllOf(Items(content), "model")
     \/ AllOf(Items(content), "BaseEntity")
     \/ AllOf(Items(content), "BaseModelDB")

\* The error validate_many_models reports for a body it cannot iterate.
NotAnArray ==
  <<PyDict([loc |-> PyList(<<PyStr("root")>>), msg |-> PyStr("is not an array of objects"),
            type |-> PyStr("type_error.array")])>>

\* The list comprehension of validate_many_models, item by item: the first
\* item whose construction raises ends it.
RECURSIVE ManyFrom(_, _, _)
RECURSIVE ManyStep(_, _, _, _)
ManyFrom(model, items, acc) ==
  IF items = <<>> THEN [exc |-> "", val |-> PyList(acc), errors |-> <<>>]
  ELSE ManyStep(model, items, acc, Construct(model, Head(items)))

ManyStep(model, items, acc, c) ==
  IF c.exc = "TypeError" THEN Raised("ManyModelValidationError", NotAnArray)
  ELSE IF c.exc = "ValidationError" THEN Raised("ManyModelValidationError", c.errors)
  ELSE ManyFrom(model, Tail(items), Append(acc, c.val))

\* A variant of validate_many_models: the errors of every failing item are
\* collected.
validate_many_models_all(model, content) ==
  IF ~Iterable(content) THEN Raised("ManyModelValidationError", NotAnArray)
  ELSE IF \A i \in DOMAIN Items(content) : Construct(model, Items(content)[i]).exc = ""
    THEN ManyFrom(model, Items(content), <<>>)
  ELSE Raised("ManyModelValidationError",
              Flatten([i \in DOMAIN Items(content) |->
                         IF Items(content)[i].t = "dict"
                           THEN ValidationErrors(model, Items(content)[i].d)
                           ELSE NotAnArray]))

validate_many_models(model, content) ==
  IF ~Iterable(content) THEN Raised("ManyModelValidationError", NotAnArray)
  ELSE ManyFrom(model, Items(content), <<>>)

normalize_query_param(value) == IF Len(value) > 1 THEN PyList(value) ELSE value[1]

\* params is request.args as to_dict(flat=False) gives it: each key with the
\* list of its values, in order.
normalize_query(params) == PyDict([k \in DOMAIN params |-> normalize_query_param(params[k])])

\* form(**request.form): unpacking a MultiDict passes each key's first value.
FormKwargs(form) == PyDict([k \in DOMAIN form |-> form[k][1]])

\* ------------------------------------------------- the validate decorator
\* The arguments of validate(...) and the handler it wraps: a schema argument
\* is the name of its class, "" when it is not given.
Cfg(query, body, form, on_success_status, exclude_none, response_many, request_body_many, response_model, func) ==
  [query |-> query, body |-> body, form |-> form,
   on_success_status |-> on_success_status, exclude_none |-> exclude_none,
   response_many |-> response_many, request_body_many |-> request_body_many,
   response_model |-> response_model, func |-> func]

parse_query(cfg, args) ==
  IF cfg.query = "" THEN NotDeclared ELSE Construct(cfg.query, normalize_query(args))

parse_body(cfg, json) ==
  IF cfg.body = "" THEN NotDeclared
  ELSE IF cfg.request_body_many THEN validate_many_models(cfg.body, json)
  ELSE Construct(cfg.body, json)

parse_form(cfg, form) ==
  IF cfg.form = "" THEN NotDeclared ELSE Construct(cfg.form, FormKwargs(form))

\* The error map after the three parses: one bucket for each that raised the
\* error its try catches.
ErrMap(pq, pb, pf) ==
  [k \in {j \in {"query_params", "body_params", "form_params"} :
            \/ j = "query_params" /\ pq.exc = "ValidationError"
            \/ j = "body_params" /\ pb.exc \in {"ValidationError", "ManyModelValidationError"}
            \/ j = "form_params" /\ pf.exc = "ValidationError"}
     |-> CASE k = "query_params" -> PyList(pq.errors)
           [] k = "body_params" -> PyList(pb.errors)
           [] k = "form_params" -> PyList(pf.errors)]

\* The wrapper's locals q, b, f and err after the parses pq, pb, pf. Only the
\* single-object body parse can raise what its try does not catch (the
\* TypeError of unpacking a body that is no mapping), and that ends the wrapper.
Parsed(pq, pb, pf) ==
  IF pb.exc = "TypeError"
    THEN [exc |-> "TypeError", q |-> PyNone, b |-> PyNone, f |-> PyNone, err |-> <<>>]
  ELSE [exc |-> "", q |-> pq.val, b |-> pb.val, f |-> pf.val, err |-> ErrMap(pq, pb, pf)]

\* A variant of parse: the parses stop at the first schema that fails.
parse_first_failure(cfg, args, json, form) ==
  Parsed(parse_query(cfg, args),
         IF parse_query(cfg, args).exc # "" THEN NotDeclared ELSE parse_body(cfg, json),
         IF parse_query(cfg, args).exc # "" \/ parse_body(cfg, json).exc # ""
           THEN NotDeclared ELSE parse_form(cfg, form))

\* The parse phase: query, body, form, in this order, each whatever the
\* others did.
parse(cfg, args, json, form) ==
  Parsed(parse_query(cfg, args), parse_body(cfg, json), parse_form(cfg, form))

ErrorSchema(error, code) == Model("ErrorSchema", [error |-> error, code |-> PyInt(code)])

\* make_json_response(res, res.code) for an ErrorSchema res.
error_response(res) == make_json_response(res, res.d["code"].n, FALSE, FALSE, "")

\* What the wrapper did after the handler: what the request ends with, the
\* rollbacks issued, the branch taken.
Outcome(result, rollback, path) == [result |-> result, rollback |-> rollback, path |-> path]

\* A variant of on_http_error: the status is always 500.
on_http_error_500(http_err) ==
  Outcome(error_response(ErrorSchema(PyStr(http_err.message), 500)), 0, "http_error")

\* except HTTPError as http_err.
on_http_error(http_err) ==
  Outcome(error_response(ErrorSchema(PyStr(http_err.message), http_err.code)), 0, "http_error")

\* except SQLAlchemyError as db_err: the rollback, then the response built
\* from an ErrorSchema whose error field holds the exception object itself.
on_db_error(db_err) ==
  Outcome(error_response(ErrorSchema(ExcObj(db_err.cls), 500)), 1, "db_error")

Branch(path, content, status_code, many, response_model) ==
  [path |-> path, content |-> content, status_code |-> status_code, many |-> many,
   response_model |-> response_model]

\* The branch of the serialization phase that a returned res takes, with the
\* arguments it gives make_json_response.
serialization_branch(cfg, res) ==
  IF cfg.response_model # ""
    THEN Branch("response_model", res, cfg.on_success_status, res.t = "list", cfg.response_model)
  ELSE IF cfg.response_many
    THEN IF is_iterable_of_models(res)
           THEN Branch("response_many", res, cfg.on_success_status, TRUE, cfg.response_model)
           ELSE Branch("invalid_iterable", res, 0, TRUE, "")
  ELSE IF res.t = "model"
    THEN Branch("model", res, cfg.on_success_status, FALSE, "")
  ELSE IF res.t = "tuple" /\ Len(res.l) = 2 /\ res.l[1].t = "model"
    THEN Branch("tuple", res.l[1], res.l[2].n, FALSE, "")
  ELSE Branch("unmodified", res, 0, FALSE, "")

take_branch(cfg, br) ==
  Outcome(CASE br.path = "invalid_iterable" -> Propagated("InvalidIterableOfModelsException")
            [] br.path = "unmodified" -> Unmodified(br.content)
            [] OTHER -> make_json_response(br.content, br.status_code, cfg.exclude_none,
                                           br.many, br.response_model),
          0, br.path)

\* The serialization phase, for a handler that returned res.
serialize(cfg, res) == take_branch(cfg, serialization_branch(cfg, res))

\* What the wrapper does with the handler's outcome: the value it returned
\* or the exception it raised.
after_func(cfg, res, raised) ==
  IF IsA(raised, "HTTPError") THEN on_http_error(raised)
  ELSE IF IsA(raised, "SQLAlchemyError") THEN on_db_error(raised)
  ELSE IF raised.cls # "" THEN Outcome(Propagated(raised.cls), 0, "raise")
  ELSE serialize(cfg, res)

\* ------------------------------------------------------ the user service
\* The attributes of the mapped class UsersModel: its own columns and those
\* of BaseEntity (src/models/user/__init__.py lines 7-15, src/utils/bases.py
\* lines 28-55), and what db.Model gives every mapped class.
UsersModelAttrs ==
  {"fullname", "email", "password", "id", "created_on", "updated_on", "deleted",
   "query", "metadata", "Config", "__tablename__"}

\* The methods of UserService (src/services/user/__init__.py lines 8-25).
UserServiceAttrs == {"__init__", "session", "commit_user", "user_exists", "create_user"}

\* werkzeug's generate_password_hash: a str naming the method, from which the
\* password cannot be read; d keeps what it is the hash of.
generate_password_hash(password) == Val("str", "pbkdf2:sha256", 0, [of |-> password], <<>>)

\* ------------------------------------------------------------------ state
VARIABLES
  req,      \* each request slot: the request, the wrapper's locals, what it did
  store,    \* the committed rows of table users, in insertion order
  session   \* each request's db.session: the rows added and not yet committed

vars == <<req, store, session>>

Req == 1..MaxReq

\* A request as the wrapper receives it, nothing done yet.
NewRequest(cfg, args, json, form, after) ==
  [pc |-> "received", cfg |-> cfg, args |-> args, json |-> json, form |-> form,
   attached |-> FALSE, query_params |-> PyNone, body_params |-> PyNone,
   form_params |-> PyNone, err |-> <<>>,
   calls |-> 0, at |-> "", res |-> PyNone, raised |-> NoExc,
   reads |-> 0, hashes |-> 0, adds |-> 0, commits |-> 0, rollbacks |-> 0,
   path |-> "", result |-> NoResult,
   after |-> after, committed_at_check |-> {}]

Idle == [NewRequest(Cfg("", "", "", 200, FALSE, FALSE, FALSE, "", ""), <<>>, PyNone, <<>>, {})
           EXCEPT !.pc = "idle"]

Init ==
  /\ req = [r \in Req |-> Idle]
  /\ store = <<>>
  /\ session = [r \in Req |-> <<>>]

\* ----------------------------------------------------------------- inputs
\* The two routes of src/routes/user/__init__.py.
CreateRoute == Cfg("", "CreateUser", "", 200, FALSE, FALSE, FALSE, "CreatedUser", "create_user")

GetAllRoute == Cfg("", "", "", 200, FALSE, FALSE, FALSE, "UsersList", "get_all_users")

Usernames == {"a", "b"}

Emails == {"a@x.com", "b@x.com"}

CreateBody(u, e, p) == PyDict([username |-> PyStr(u), email |-> PyStr(e), password |-> PyStr(p)])

\* The bodies sent to POST /v1/user/create: every valid one over two
\* usernames and two emails, one without password, one with a null email, and
\* the JSON value null.
CreateBodies ==
  {CreateBody(u, e, "p") : u \in Usernames, e \in Emails}
    \cup {PyDict([username |-> PyStr("a"), email |-> PyStr("a@x.com")]),
          PyDict([username |-> PyStr("a"), email |-> PyNone, password |-> PyStr("p")]),
          PyNone}

\* The decorator's arguments in SpecValidate: each of query, body and form
\* declared (with schema ForBody) or not, the body single or many, the
\* response through a response_model, as many, or neither.
ValidateCfgs ==
  {c \in {Cfg(q, b, f, 200, FALSE, rmany, bmany, rmodel, "func") :
            q \in {"", "ForBody"}, b \in {"", "ForBody"}, f \in {"", "ForBody"},
            rmany \in BOOLEAN, bmany \in BOOLEAN, rmodel \in {"", "ForBody"}} :
     c.request_body_many => c.body # ""}

\* Query strings: none, ?param=a, ?param=a&param=b.
QueryArgs == {<<>>, [param |-> <<PyStr("a")>>], [param |-> <<PyStr("a"), PyStr("b")>>]}

\* Forms: empty, param=a.
Forms == {<<>>, [param |-> <<PyStr("a")>>]}

\* JSON objects against ForBody: valid, valid after coercion, without the
\* field, with a null field; and an element that is no object.
ValidObject == PyDict([param |-> PyStr("a")])

Elements == {ValidObject, PyDict(<<>>), PyDict([param |-> PyNone]), PyInt(5)}

SeqsUpTo(S, n) == UNION {[1..k -> S] : k \in 0..n}

\* JSON bodies: an object, null, a number, an array of elements.
Bodies ==
  Elements \cup {PyDict([param |-> PyInt(1)]), PyNone}
    \cup {PyList(l) : l \in SeqsUpTo(Elements, MaxBodyLen)}

AModel == Model("ForBody", [param |-> PyStr("a")])

ResElements ==
  {AModel, Entity("BaseEntity", [id |-> PyInt(1)]), Entity("BaseModelDB", [deleted |-> PyNone]),
   PyStr("x")}

\* What a handler returns ...
Returns ==
  {AModel, PyNone, PyStr("ok"), PyTuple(<<AModel, PyInt(201)>>)}
    \cup {PyList(l) : l \in SeqsUpTo(ResElements, MaxResLen)}

\* ... or raises.
Raises ==
  {HTTPError("teapot", 418), NotFound("no such user"), Forbidden("not allowed"),
   Raise("SQLAlchemyError", "", 0), Raise("IntegrityError", "", 0), Raise("KeyError", "", 0)}

\* ---------------------------------------------------------------- actions
\* getattr(obj, name) on an object with the given attributes.
GetAttr(attrs, name) == IF name \in attrs THEN NoExc ELSE Raise("AttributeError", "", 0)

Done(r) == req[r].pc = "done"

\* A request to one of the application's routes arrives.
Receive(r) ==
  /\ req[r].pc = "idle"
  /\ \E cfg \in {CreateRoute, GetAllRoute} :
       \E json \in IF cfg = CreateRoute THEN CreateBodies ELSE {PyNone} :
         req' = [req EXCEPT ![r] = NewRequest(cfg, <<>>, json, <<>>, {s \in Req : Done(s)})]
  /\ UNCHANGED <<store, session>>

\* A request to a handler wrapped with any of the decorator's arguments; the
\* inputs a schema is declared for are drawn, the others stay empty.
ReceiveAny(r) ==
  /\ req[r].pc = "idle"
  /\ \E cfg \in ValidateCfgs :
       \E args \in IF cfg.query = "" THEN {<<>>} ELSE QueryArgs :
         \E json \in IF cfg.body = "" THEN {PyNone} ELSE Bodies :
           \E form \in IF cfg.form = "" THEN {<<>>} ELSE Forms :
             req' = [req EXCEPT ![r] = NewRequest(cfg, args, json, form, {})]
  /\ UNCHANGED <<store, session>>

\* The request after the parse phase p: the parsed values set on it, and
\* the 400 response when the error map is not empty.
after_parse(rq, p) ==
  IF p.exc # "" THEN [rq EXCEPT !.pc = "done", !.result = Propagated(p.exc)]
  ELSE IF DOMAIN p.err # {}
    THEN [rq EXCEPT !.pc = "done", !.attached = TRUE, !.err = p.err,
                    !.query_params = p.q, !.body_params = p.b, !.form_params = p.f,
                    !.result = error_response(ErrorSchema(PyDict(p.err), 400))]
  ELSE [rq EXCEPT !.pc = "dispatch", !.attached = TRUE, !.err = p.err,
                  !.query_params = p.q, !.body_params = p.b, !.form_params = p.f]

\* The wrapper up to the call of the handler.
Parse(r) ==
  /\ req[r].pc = "received"
  /\ req' = [req EXCEPT ![r] = after_parse(@, parse(@.cfg, @.args, @.json, @.form))]
  /\ UNCHANGED <<store, session>>

\* An arbitrary handler: it returns a value or raises.
func(r) ==
  /\ req[r].pc = "dispatch"
  /\ req[r].cfg.func = "func"
  /\ \E out \in [res : Returns, raised : {NoExc}] \cup [res : {PyNone}, raised : Raises] :
       req' = [req EXCEPT ![r] = [@ EXCEPT !.pc = "returned", !.calls = @ + 1,
                                           !.res = out.res, !.raised = out.raised]]
  /\ UNCHANGED <<store, session>>

\* UserService.user_exists: the filter names UsersModel.username and
\* UsersModel.email before any query runs.
user_exists(rows, username, email) ==
  IF GetAttr(UsersModelAttrs, "username").cls # ""
    THEN [exc |-> GetAttr(UsersModelAttrs, "username"), val |-> FALSE, reads |-> 0]
  ELSE IF GetAttr(UsersModelAttrs, "email").cls # ""
    THEN [exc |-> GetAttr(UsersModelAttrs, "email"), val |-> FALSE, reads |-> 0]
  ELSE [exc |-> NoExc, reads |-> 1,
        val |-> \E i \in DOMAIN rows :
                  rows[i].d["username"] = username \/ rows[i].d["email"] = email]

\* UsersModel(**kwargs): the declarative constructor refuses a keyword that
\* is no attribute of the class.
UsersModel(kwargs) ==
  IF \E k \in DOMAIN kwargs : k \notin UsersModelAttrs
    THEN [exc |-> Raise("TypeError", "", 0), val |-> PyNone]
  ELSE [exc |-> NoExc, val |-> Entity("BaseEntity", kwargs)]

Committed == {s \in Req : req[s].commits > 0}

\* create_user, line 23: the existence check ex, and the Forbidden it raises.
check_exists(rq, ex, committed) ==
  IF ex.exc.cls # "" THEN [rq EXCEPT !.pc = "returned", !.calls = @ + 1, !.raised = ex.exc]
  ELSE IF ex.val
    THEN [rq EXCEPT !.pc = "returned", !.calls = @ + 1, !.reads = @ + ex.reads,
                    !.raised = Forbidden("this user already exists"),
                    !.committed_at_check = committed]
  ELSE [rq EXCEPT !.at = "commit_user", !.calls = @ + 1, !.reads = @ + ex.reads,
                  !.committed_at_check = committed]

\* commit_user, lines 13-15: the row built from the body, its password
\* hashed, added to the session.
add_user(r, user) ==
  /\ req' = [req EXCEPT ![r] =
               IF user.exc.cls # "" THEN [@ EXCEPT !.pc = "returned", !.raised = user.exc]
               ELSE [@ EXCEPT !.at = "commit", !.hashes = @ + 1, !.adds = @ + 1]]
  /\ session' = IF user.exc.cls # "" THEN session
                ELSE [session EXCEPT ![r] =
                        Append(@, [user.val EXCEPT !.d["password"] = generate_password_hash(@)])]

\* commit_user, lines 16-17: the commit and the CreatedUser returned.
commit_user(r, kw) ==
  /\ store' = store \o session[r]
  /\ session' = [session EXCEPT ![r] = <<>>]
  /\ req' = [req EXCEPT ![r] =
               [@ EXCEPT !.pc = "returned", !.commits = @ + 1,
                         !.res = Model("CreatedUser",
                                       [username |-> kw["username"], email |-> kw["email"]])]]

\* The handler of POST /v1/user/create, a statement of the service at a
\* time: create_user's existence check, then commit_user's construction,
\* hash and session.add, then its commit and return.
create_user(r) ==
  /\ req[r].pc = "dispatch"
  /\ req[r].cfg.func = "create_user"
  /\ CASE req[r].at = "" ->
            /\ req' = [req EXCEPT ![r] =
                 check_exists(@, user_exists(store, @.body_params.d["username"],
                                             @.body_params.d["email"]), Committed)]
            /\ UNCHANGED <<store, session>>
       [] req[r].at = "commit_user" ->
            /\ add_user(r, UsersModel(req[r].body_params.d))
            /\ UNCHANGED store
       [] req[r].at = "commit" -> commit_user(r, req[r].body_params.d)

\* The handler of GET /v1/user/get-all: it calls UserService.get_all_users,
\* which the class does not define.
get_all_users(r) ==
  /\ req[r].pc = "dispatch"
  /\ req[r].cfg.func = "get_all_users"
  /\ req' = [req EXCEPT ![r] = [@ EXCEPT !.pc = "returned", !.calls = @ + 1,
                                         !.raised = GetAttr(UserServiceAttrs, "get_all_users")]]
  /\ UNCHANGED <<store, session>>

\* The request after the wrapper's except clauses or serialization a.
finish(rq, a) ==
  [rq EXCEPT !.pc = "done", !.result = a.result, !.rollbacks = @ + a.rollback, !.path = a.path]

\* The wrapper after the handler; a rollback empties the session.
Complete(r) ==
  /\ req[r].pc = "returned"
  /\ req' = [req EXCEPT ![r] = finish(@, after_func(@.cfg, @.res, @.raised))]
  /\ session' = IF IsA(req[r].raised, "SQLAlchemyError")
                  THEN [session EXCEPT ![r] = <<>>] ELSE session
  /\ UNCHANGED store

Next ==
  \E r \in Req : Receive(r) \/ Parse(r) \/ create_user(r) \/ get_all_users(r) \/ Complete(r)

Spec == Init /\ [][Next]_vars

NextValidate == ReceiveAny(1) \/ Parse(1) \/ func(1) \/ Complete(1)

SpecValidate == Init /\ [][NextValidate]_vars

\* ------------------------------------------------------------- properties
\* A JSON object that satisfies schema cls: every declared field present and
\* holding a string or a number.
BodyConforms(cls, json) ==
  /\ json.t = "dict"
  /\ \A f \in Range(SchemaFields(cls)) : f \in DOMAIN json.d /\ json.d[f].t \in {"str", "int"}

\* A body that satisfies what the route declares: one conforming object, or
\* with request_body_many an array of them.
Conforms(cfg, json) ==
  IF cfg.request_body_many
    THEN json.t = "list" /\ \A i \in DOMAIN json.l : BodyConforms(cfg.body, json.l[i])
  ELSE BodyConforms(cfg.body, json)

Envelope(error, code) == PyDict([error |-> error, code |-> PyInt(code)])

\* C1: a request whose body does not conform to the declared body schema
\* (a missing field, a wrong type, no JSON object at all) ends with status
\* 400 and body {error: {body_params: ...}, code: 400}, and the handler was
\* not invoked.
C1_MalformedBodyIs400 ==
  \A r \in Req :
    (Done(r) /\ req[r].cfg.body # "" /\ ~Conforms(req[r].cfg, req[r].json)) =>
      /\ req[r].calls = 0
      /\ req[r].result.kind = "response"
      /\ req[r].result.status = 400
      /\ req[r].result.body.d["code"] = PyInt(400)
      /\ "body_params" \in DOMAIN req[r].result.body.d["error"].d

\* C5: when the handler raises a SQLAlchemyError the wrapper rolls back once
\* and the request ends with status 500 and body {error: ..., code: 500},
\* not with an exception.
C5_DbErrorIs500 ==
  \A r \in Req :
    (Done(r) /\ IsA(req[r].raised, "SQLAlchemyError")) =>
      /\ req[r].rollbacks = 1
      /\ req[r].result.kind = "response"
      /\ req[r].result.status = 500
      /\ DOMAIN req[r].result.body.d = {"error", "code"}
      /\ req[r].result.body.d["code"] = PyInt(500)

\* C6: when the handler raises an HTTPError (NotFound with code 404,
\* Forbidden with code 403 among them) the request ends with the error's code
\* as status and {error: message, code: code} as body, no rollback was issued
\* and the serialization phase was not entered.
C6_HTTPErrorEnvelope ==
  \A r \in Req :
    (Done(r) /\ IsA(req[r].raised, "HTTPError")) =>
      /\ req[r].result =
           Responded(req[r].raised.code, Envelope(PyStr(req[r].raised.message), req[r].raised.code))
      /\ req[r].raised.cls = "NotFound" => req[r].result.status = 404
      /\ req[r].raised.cls = "Forbidden" => req[r].result.status = 403
      /\ req[r].rollbacks = 0
      /\ req[r].path = "http_error"

\* C6's case: a handler raised Forbidden and the request ended 403.
C6_Witness ==
  \E r \in Req :
    /\ Done(r) /\ req[r].raised.cls = "Forbidden" /\ req[r].calls = 1
    /\ req[r].result.status = 403
    /\ req[r].result.body = Envelope(PyStr("not allowed"), 403)

\* The elements of an array body that are objects failing schema cls.
Fails(cls, e) == e.t = "dict" /\ ~BodyConforms(cls, e)

ManyRequest(r) ==
  req[r].attached /\ req[r].cfg.body # "" /\ req[r].cfg.request_body_many

\* C8, as claimed: for an array of objects, the body_params bucket holds the
\* validation errors of every element that fails the schema.
C8_EveryFailingElementReported ==
  \A r \in Req :
    (ManyRequest(r) /\ req[r].json.t = "list"
       /\ \A i \in DOMAIN req[r].json.l : req[r].json.l[i].t = "dict") =>
      LET every == Flatten([i \in DOMAIN req[r].json.l |->
                              ValidationErrors(req[r].cfg.body, req[r].json.l[i].d)])
      IN IF every = <<>> THEN "body_params" \notin DOMAIN req[r].err
         ELSE /\ "body_params" \in DOMAIN req[r].err
              /\ req[r].err["body_params"] = PyList(every)

\* The first element of l that is no conforming object, 0 when there is none.
FirstBad(cls, l) ==
  IF \A i \in DOMAIN l : BodyConforms(cls, l[i]) THEN 0
  ELSE CHOOSE i \in DOMAIN l :
         /\ ~BodyConforms(cls, l[i])
         /\ \A j \in 1..(i - 1) : BodyConforms(cls, l[j])

\* C8, amended: for an array body the body_params bucket holds the errors of
\* the first element that cannot be constructed (its validation errors if it
\* is an object, the "is not an array of objects" error if it is not) and
\* nothing of any later element; there is no bucket when every element
\* passes; a body that cannot be iterated gets the "is not an array of
\* objects" error.
C8_FirstFailingElementReported ==
  \A r \in Req :
    (ManyRequest(r) /\ req[r].json.t \in {"list", "none", "int"}) =>
      IF req[r].json.t # "list"
        THEN /\ "body_params" \in DOMAIN req[r].err
             /\ req[r].err["body_params"] = PyList(NotAnArray)
             /\ req[r].body_params = PyNone
      ELSE LET l == req[r].json.l
               i == FirstBad(req[r].cfg.body, l)
           IN IF i = 0
                THEN /\ "body_params" \notin DOMAIN req[r].err
                     /\ req[r].body_params.t = "list"
                     /\ Len(req[r].body_params.l) = Len(l)
              ELSE /\ "body_params" \in DOMAIN req[r].err
                   /\ req[r].body_params = PyNone
                   /\ req[r].err["body_params"] =
                        IF l[i].t = "dict"
                          THEN PyList(ValidationErrors(req[r].cfg.body, l[i].d))
                          ELSE PyList(NotAnArray)

\* C8's case: an array whose first two elements fail the schema differently,
\* reported with the errors of the first alone.
C8_Witness ==
  \E r \in Req :
    /\ ManyRequest(r) /\ req[r].json.t = "list" /\ Len(req[r].json.l) >= 2
    /\ Fails(req[r].cfg.body, req[r].json.l[1])
    /\ Fails(req[r].cfg.body, req[r].json.l[2])
    /\ req[r].json.l[1] # req[r].json.l[2]
    /\ req[r].err["body_params"] = PyList(ValidationErrors(req[r].cfg.body, req[r].json.l[1].d))
    /\ req[r].result.status = 400

\* Whether the input of a declared schema fails it: a query in which a
\* field is absent or given more than once, a body that cannot be iterated
\* or holds an item that is no conforming object (a single body that is no
\* conforming object), a form in which a field is absent.
QueryFails(cfg, args) ==
  \E f \in Range(SchemaFields(cfg.query)) : f \notin DOMAIN args \/ Len(args[f]) # 1

BodyFails(cfg, json) ==
  IF cfg.request_body_many
    THEN \/ ~Iterable(json)
         \/ \E i \in DOMAIN Items(json) : ~BodyConforms(cfg.body, Items(json)[i])
  ELSE ~BodyConforms(cfg.body, json)

FormFails(cfg, form) == \E f \in Range(SchemaFields(cfg.form)) : f \notin DOMAIN form

FailedBuckets(rq) ==
  {k \in {"query_params", "body_params", "form_params"} :
     \/ k = "query_params" /\ rq.cfg.query # "" /\ QueryFails(rq.cfg, rq.args)
     \/ k = "body_params" /\ rq.cfg.body # "" /\ BodyFails(rq.cfg, rq.json)
     \/ k = "form_params" /\ rq.cfg.form # "" /\ FormFails(rq.cfg, rq.form)}

OneRecognizedKind(res) ==
  /\ res.t \in {"list", "tuple"}
  /\ \E kind \in {"model", "BaseEntity", "BaseModelDB"} :
       \A i \in DOMAIN res.l : res.l[i].t = kind

IsJsonArray(result) == result.kind = "response" /\ result.body.t = "list"

ManyResponse(r) ==
  /\ Done(r) /\ req[r].calls = 1 /\ req[r].raised = NoExc
  /\ req[r].cfg.response_model = "" /\ req[r].cfg.response_many

\* C10, as claimed: with response_many and no response_model the returned
\* value is serialized as a JSON array only if it is a non-empty sequence of
\* one recognized kind, and every other value, the empty sequence among
\* them, ends in InvalidIterableOfModelsException.
C10_EmptySequenceRejected ==
  \A r \in Req :
    ManyResponse(r) =>
      /\ IsJsonArray(req[r].result) => (OneRecognizedKind(req[r].res) /\ req[r].res.l # <<>>)
      /\ ~(OneRecognizedKind(req[r].res) /\ req[r].res.l # <<>>) =>
           req[r].result = Propagated("InvalidIterableOfModelsException")

\* C10, amended: the returned value is serialized as a JSON array only if it
\* is a sequence, empty or not, of one recognized kind; the empty sequence is
\* serialized as [] with the success status; every other value (a mixed
\* sequence, a value that cannot be iterated) ends in
\* InvalidIterableOfModelsException, which leaves the wrapper.
C10_EmptySequenceSerialized ==
  \A r \in Req :
    ManyResponse(r) =>
      /\ IsJsonArray(req[r].result) => OneRecognizedKind(req[r].res)
      /\ req[r].res \in {PyList(<<>>), PyTuple(<<>>)} =>
           req[r].result = Responded(req[r].cfg.on_success_status, PyList(<<>>))
      /\ ~OneRecognizedKind(req[r].res) =>
           req[r].result = Propagated("InvalidIterableOfModelsException")

\* C10's case: a handler returned the empty list and the request ended 200
\* with [].
C10_Witness ==
  \E r \in Req :
    /\ ManyResponse(r) /\ req[r].res = PyList(<<>>)
    /\ req[r].result = Responded(200, PyList(<<>>))

\* --------------------------------------------- properties of the routes
CreateRequest(r) ==
  /\ Done(r) /\ req[r].cfg = CreateRoute /\ BodyConforms("CreateUser", req[r].json)

SameUser(r1, r2) ==
  \/ req[r1].json.d["username"] = req[r2].json.d["username"]
  \/ req[r1].json.d["email"] = req[r2].json.d["email"]

\* Every two requests were served one after the other.
OneAtATime ==
  \A r1, r2 \in Req :
    (r1 # r2 /\ req[r1].pc # "idle" /\ req[r2].pc # "idle") =>
      r1 \in req[r2].after \/ r2 \in req[r1].after

Matching(json) ==
  {i \in DOMAIN store : \/ store[i].d["username"] = json.d["username"]
                        \/ store[i].d["email"] = json.d["email"]}

\* C2: with requests served one at a time, a create request for a username
\* or email that an earlier create request asked for ends 403 with body
\* {"error": "this user already exists", "code": 403} after no insert and no
\* commit, and the table never holds two users of one username or email.
C2_RepeatedCreateIs403 ==
  OneAtATime =>
    /\ \A r1, r2 \in Req :
         (CreateRequest(r1) /\ CreateRequest(r2) /\ r1 \in req[r2].after /\ SameUser(r1, r2)) =>
           /\ req[r2].result = Responded(403, Envelope(PyStr("this user already exists"), 403))
           /\ req[r2].adds = 0
           /\ req[r2].commits = 0
    /\ \A r \in Req : CreateRequest(r) => Cardinality(Matching(req[r].json)) <= 1

\* No other request committed a user of r's username or email.
NoneStored(r) ==
  \A s \in Req \ {r} : (req[s].commits > 0) => ~SameUser(r, s)

\* C3: a create request with a valid body for a username and email nobody
\* stored ends 200 with body {username, email} and no password, after one
\* read, one insert of a row whose password is the hash of the one sent, and
\* one commit.
C3_CreateReturnsCreatedUser ==
  \A r \in Req :
    (CreateRequest(r) /\ NoneStored(r)) =>
      /\ req[r].result =
           Responded(200, PyDict([username |-> req[r].json.d["username"],
                                  email |-> req[r].json.d["email"]]))
      /\ req[r].reads = 1 /\ req[r].hashes = 1 /\ req[r].adds = 1 /\ req[r].commits = 1
      /\ \E i \in DOMAIN store :
           store[i].d["password"] = generate_password_hash(req[r].json.d["password"])

\* C4: two create requests for one user that overlap, neither running its
\* existence check after the other's commit, both end 200 and leave two rows
\* of that user in the table.
C4_OverlappingCreatesStoreTwice ==
  \A r1, r2 \in Req :
    (/\ r1 # r2 /\ CreateRequest(r1) /\ CreateRequest(r2)
     /\ req[r1].json = req[r2].json
     /\ r1 \notin req[r2].after /\ r2 \notin req[r1].after
     /\ r1 \notin req[r2].committed_at_check /\ r2 \notin req[r1].committed_at_check
     /\ \A s \in Req \ {r1, r2} : req[s].commits = 0) =>
      /\ req[r1].result.status = 200 /\ req[r2].result.status = 200
      /\ Cardinality(Matching(req[r1].json)) >= 2

\* C7: a get-all request ends 200 with {"users": [...]} holding the
\* username and email of every stored user, [] when there is none, and
\* inserts and commits nothing.
C7_GetAllListsUsers ==
  \A r \in Req :
    (Done(r) /\ req[r].cfg = GetAllRoute) =>
      /\ req[r].result =
           Responded(200, PyDict([users |-> PyList([i \in DOMAIN store |->
                        PyDict([username |-> store[i].d["username"],
                                email |-> store[i].d["email"]])])]))
      /\ req[r].adds = 0 /\ req[r].commits = 0

====
